---------------------------- MODULE Spec2Model ----------------------------
(***************************************************************************)
(* clinix.ai: the symptom parser (src/llm_interface/llm_parser.py) and the *)
(* layered triage engine (src/inference/triage_engine.py), with the two    *)
(* callers of run_triage (the /triage endpoint and the dashboard handler). *)
(*                                                                         *)
(* Texts are TLA+ strings; Python's `p in t` is Contains(t, p), computed   *)
(* character by character.  Severities are integers in tenths (5.0 is 50). *)
(* Scores are integers in units of 10^-9 (0.95 is 950000000); every        *)
(* product of the cascade is exact in that unit, and the only rounded      *)
(* value is x^1.8, tabulated to five decimals.                             *)
(***************************************************************************)
EXTENDS Integers, Sequences, FiniteSets, TLC

(***************************************************************************)
(* Bounds of the model.                                                    *)
(***************************************************************************)
\* a request text is at most MaxWords words of Vocabulary, joined by blanks
MaxWords == 2
\* severities of hand-built records range over -10 .. MaxSeverity (tenths)
MaxSeverity == 104
\* a text given to the rule-based parser alone is at most MaxRuleWords phrases
\* of RuleWords, joined by blanks
MaxRuleWords == 2
\* the /triage endpoint is called until MaxRequests symptom reports are stored
MaxRequests == 2

(***************************************************************************)
(* Strings.                                                                *)
(***************************************************************************)
Max(a, b) == IF a >= b THEN a ELSE b
Min(a, b) == IF a <= b THEN a ELSE b

\* Python: p in t
Contains(t, p) ==
    \E i \in 1..(Len(t) - Len(p) + 1) : SubSeq(t, i, i + Len(p) - 1) = p

\* Python: any(p in t for p in ps)
ContainsAny(t, ps) == \E p \in ps : Contains(t, p)

UpperChars == "ABCDEFGHIJKLMNOPQRSTUVWXYZ"
LowerChars == "abcdefghijklmnopqrstuvwxyz"

LowerChar(c) ==
    IF \E i \in 1..Len(UpperChars) : SubSeq(UpperChars, i, i) = c
    THEN LET i == CHOOSE j \in 1..Len(UpperChars) : SubSeq(UpperChars, j, j) = c
         IN  SubSeq(LowerChars, i, i)
    ELSE c

\* Python: str.lower()
RECURSIVE Lower(_)
Lower(s) ==
    IF s = "" THEN ""
    ELSE LowerChar(SubSeq(s, 1, 1)) \o Lower(SubSeq(s, 2, Len(s)))

\* Python: str.strip(), for the blank as the only whitespace character
RECURSIVE Strip(_)
Strip(s) ==
    IF s = "" THEN ""
    ELSE IF SubSeq(s, 1, 1) = " " THEN Strip(SubSeq(s, 2, Len(s)))
    ELSE IF SubSeq(s, Len(s), Len(s)) = " " THEN Strip(SubSeq(s, 1, Len(s) - 1))
    ELSE s

\* Python: if c: x = max(x, v)
RaiseIf(c, x, v) == IF c THEN Max(x, v) ELSE x

\* Python: x = [] ; if c: x.append(v)
Opt(c, v) == IF c THEN <<v>> ELSE <<>>

\* Python: v in xs, for a list xs
InList(v, xs) == \E i \in 1..Len(xs) : xs[i] = v

\* Python: d.get(k, default), for a dict d
Get(d, k, default) == IF k \in DOMAIN d THEN d[k] ELSE default

(***************************************************************************)
(* Inputs.                                                                 *)
(***************************************************************************)
\* the words of request texts; the empty word gives texts that are blank or
\* begin or end with a blank
Vocabulary ==
    { "", "dying", "significant bleeding that won't stop", "Broken", "arm", "heart",
      "heart hurts", "mild", "headache", "chest pain", "shortness of breath", "terrible" }

RECURSIVE Join(_)
Join(ws) ==
    IF ws = <<>> THEN ""
    ELSE IF Len(ws) = 1 THEN ws[1]
    ELSE ws[1] \o " " \o Join(Tail(ws))

Texts == { Join(ws) : ws \in UNION { [1..n -> Vocabulary] : n \in 0..MaxWords } }

\* the phrases of the texts the rule-based parser is studied on: injuries with
\* and without the word "broken", severity cues, and red-flag phrases
RuleWords ==
    { "", "broken arm", "broken wrist", "wrist", "fractured wrist", "shoulder popped out",
      "fell on my back", "significant", "mild", "dying",
      "significant bleeding that won't stop", "Passed out", "crushing", "can't breathe" }

RuleTexts == { Join(ws) : ws \in UNION { [1..n -> RuleWords] : n \in 0..MaxRuleWords } }

\* the texts run_triage is called on directly
ScoreTexts == {"", "hello", "heart hurts", "broken arm", "dislocated"}

AllTexts == Texts \cup ScoreTexts \cup RuleTexts

\* raw_text.lower().strip() and raw_text.strip() on the texts, computed once
LowerStripped == [t \in AllTexts |-> Strip(Lower(t))]
Stripped == [t \in AllTexts |-> Strip(t)]

(***************************************************************************)
(* The rule-based parser: llm_parser.py.                                   *)
(***************************************************************************)
fracture_keywords == {"broken", "fracture", "cracked", "shattered", "snapped"}
dislocation_keywords ==
    {"dislocated", "out of place", "wrong way", "facing wrong", "misaligned", "popped out"}
trauma_keywords == {"hit", "struck", "fell", "fall", "accident", "crash", "collision"}
body_parts ==
    <<"arm", "leg", "foot", "ankle", "wrist", "hand", "finger", "toe", "shoulder",
      "elbow", "knee", "hip", "rib", "spine", "neck", "back">>

\* the tag the loop of _detect_injuries gives a body part found in the text
\* ("" when no keyword family matches: nothing is appended)
InjuryKind(text_lower) ==
    IF ContainsAny(text_lower, fracture_keywords) THEN "fracture_"
    ELSE IF ContainsAny(text_lower, dislocation_keywords) THEN "dislocation_"
    ELSE IF ContainsAny(text_lower, trauma_keywords) THEN "trauma_"
    ELSE ""

\* Python: [kind + part for part in parts], nothing for the kind ""
Tagged(kind, parts) ==
    IF kind = "" THEN <<>> ELSE [i \in 1..Len(parts) |-> kind \o parts[i]]

\* _detect_injuries(text_lower)[0]
DetectInjuries(text_lower) ==
    Tagged(InjuryKind(text_lower),
           SelectSeq(body_parts, LAMBDA part : Contains(text_lower, part)))

\* the floor a tag of the loop of _detect_injuries sets (lines 128, 131, 134)
KindSeverity(kind) ==
    IF kind = "fracture_" THEN 85
    ELSE IF kind = "dislocation_" THEN 80
    ELSE IF kind = "trauma_" THEN 70
    ELSE 0

\* _detect_injuries(text_lower)[1], in tenths
DetectInjurySeverity(text_lower) ==
    RaiseIf(ContainsAny(text_lower, dislocation_keywords),
        RaiseIf(Contains(text_lower, "broken"),
            IF DetectInjuries(text_lower) = <<>> THEN 0
            ELSE KindSeverity(InjuryKind(text_lower)),
            85),
        80)

HasBleeding(t) == Contains(t, "bleeding") \/ Contains(t, "blood")
WontStop(t) ==
    Contains(t, "won't stop") \/ Contains(t, "wont stop") \/ Contains(t, "not stopping")
DislocationPhrase(t) ==
    ContainsAny(t, {"wrong way", "facing wrong", "out of place", "dislocated"})

\* the if/elif chain of phrase cues of _calculate_severity_spectrum (lines 152-169)
PhraseSeverity(text_lower, severity) ==
    IF ContainsAny(text_lower, {"dying", "death", "dead", "kill me", "im dying", "i'm dying"})
        THEN 100
    ELSE IF ContainsAny(text_lower,
               {"severe", "extreme", "intense", "unbearable", "critical", "emergency"})
        THEN Max(severity, 90)
    ELSE IF ContainsAny(text_lower, {"very bad", "really bad", "terrible", "awful"})
        THEN Max(severity, 80)
    ELSE IF Contains(text_lower, "significant")
        THEN IF HasBleeding(text_lower)
             THEN IF WontStop(text_lower) THEN 68 ELSE 65
             ELSE 65
    ELSE IF ContainsAny(text_lower, {"bad", "moderate"})
        THEN Max(severity, 65)
    ELSE IF ContainsAny(text_lower, {"mild", "slight", "minor", "little"})
        THEN Min(severity, 40)
    ELSE severity

\* the condition of lines 171-172
UnstoppedBleeding(text_lower) ==
    /\ HasBleeding(text_lower)
    /\ \/ WontStop(text_lower)
       \/ ContainsAny(text_lower, {"continuing", "persistent", "heavy"})
    /\ ~Contains(text_lower, "significant")
    /\ ~Contains(text_lower, "severe")

\* _calculate_severity_spectrum(text_lower, injuries, injury_severity), in tenths
CalculateSeveritySpectrum(text_lower, injuries, injury_severity) ==
    LET s1 == RaiseIf(injury_severity > 0, 50, injury_severity)
        s2 == PhraseSeverity(text_lower, s1)
        s3 == RaiseIf(UnstoppedBleeding(text_lower), s2, 70)
        s4 == RaiseIf(Len(injuries) >= 2, s3, 85)
        s5 == RaiseIf(Contains(text_lower, "broken")
                      /\ ContainsAny(text_lower, {"arm", "leg", "foot"}), s4, 85)
        s6 == RaiseIf(DislocationPhrase(text_lower), s5, 80)
    IN  Min(s6, 100)

\* lines 223-227 of _mock_parse
SignificantBleeding(text_lower, severity) ==
    IF Contains(text_lower, "significant") /\ HasBleeding(text_lower)
    THEN IF WontStop(text_lower) THEN 68
         ELSE IF severity < 65 THEN 65 ELSE severity
    ELSE severity

\* the severity _mock_parse settles on (lines 221-227), in tenths
MockSeverity(text_lower) ==
    SignificantBleeding(text_lower,
        CalculateSeveritySpectrum(text_lower, DetectInjuries(text_lower),
                                  DetectInjurySeverity(text_lower)))

\* lines 214-219 of _mock_parse
WithInjuries(cats, injuries) ==
    IF injuries # <<>> THEN cats \o injuries \o <<"trauma">>
    ELSE IF cats = <<>> THEN <<"general_discomfort">>
    ELSE cats

\* the symptom_categories _mock_parse builds (lines 200-219)
MockCategories(text_lower) ==
    WithInjuries(
             Opt(ContainsAny(text_lower, {"chest", "heart", "cardiac"}), "chest_pain")
          \o Opt(ContainsAny(text_lower, {"breath", "breathing", "shortness", "short of breath"}),
                 "shortness_of_breath")
          \o Opt(ContainsAny(text_lower, {"fever", "temperature", "hot"}), "fever")
          \o Opt(ContainsAny(text_lower, {"head", "headache"}), "headache")
          \o Opt(ContainsAny(text_lower, {"stomach", "abdominal", "belly", "abdomen"}),
                 "abdominal_pain")
          \o Opt(ContainsAny(text_lower, {"bleeding", "blood", "hemorrhage"}), "bleeding"),
        DetectInjuries(text_lower))

\* InjuryFlags with the two flags tested side by side: two injuries give
\* multiple_injuries alone
InjuryFlags_SideBySide(injuries) ==
    Opt(Len(injuries) = 1, "traumatic_injury") \o Opt(Len(injuries) >= 2, "multiple_injuries")

\* lines 239-242 of _mock_parse
InjuryFlags(injuries) ==
    Opt(injuries # <<>>, "traumatic_injury") \o Opt(Len(injuries) >= 2, "multiple_injuries")

\* the red_flags _mock_parse builds (lines 229-249)
MockRedFlags(text_lower) ==
       Opt(ContainsAny(text_lower, {"severe chest", "crushing", "pressure", "heart pain"}),
           "severe_chest_pain")
    \o Opt(ContainsAny(text_lower, {"unconscious", "passed out", "fainted"}),
           "loss_of_consciousness")
    \o Opt(ContainsAny(text_lower,
               {"can't breathe", "struggling to breathe", "shortness of breath"}),
           "difficulty_breathing")
    \o Opt(ContainsAny(text_lower, {"bleeding", "blood", "hemorrhage"}), "active_bleeding")
    \o InjuryFlags(DetectInjuries(text_lower))
    \o Opt(Contains(text_lower, "broken"), "fracture")
    \o Opt(DislocationPhrase(text_lower), "dislocation")
    \o Opt(MockSeverity(text_lower) >= 90, "critical_severity")

\* lines 251-257 of _mock_parse: the returned dict has these five keys and no other
MockRecord(text_lower, injured) ==
    [ symptom_categories |-> MockCategories(text_lower),
      severity |-> MockSeverity(text_lower),
      duration_days |-> IF injured THEN 1 ELSE 3,
      pattern |-> IF injured THEN "acute"
                  ELSE IF Contains(text_lower, "worse") THEN "progressive"
                  ELSE "constant",
      red_flags |-> MockRedFlags(text_lower) ]

\* _mock_parse(raw_text)
MockParseRules(raw_text) ==
    MockRecord(LowerStripped[raw_text], DetectInjuries(LowerStripped[raw_text]) # <<>>)

\* _mock_parse on the request texts, computed once
RuleBasedRecord == [t \in Texts \cup RuleTexts |-> MockParseRules(t)]

MockParse(raw_text) == RuleBasedRecord[raw_text]

(***************************************************************************)
(* The triage engine: triage_engine.py.  Scores in units of 10^-9.         *)
(***************************************************************************)
\* classify_triage is applied to the scores -0.100, -0.095, .. up to
\* MaxScoreStep * 0.005, and to the scores one unit below the two thresholds
MaxScoreStep == 220

\* n hundredths, as a score: Pct(95) is 0.95
Pct(n) == n * 10000000

\* score * (n hundredths); exact for every score that is a multiple of 100 units
Mul(score, n) == (score \div 100) * n

RISK_THRESHOLD_URGENT == Pct(80)
RISK_THRESHOLD_CONSULT == Pct(40)

\* ClassifyTriage with strict comparisons: a score on a threshold falls below it
ClassifyTriage_Strict(risk_score) ==
    IF risk_score > RISK_THRESHOLD_URGENT THEN "urgent"
    ELSE IF risk_score > RISK_THRESHOLD_CONSULT THEN "consult"
    ELSE "self_care"

\* classify_triage(risk_score)
ClassifyTriage(risk_score) ==
    IF risk_score >= RISK_THRESHOLD_URGENT THEN "urgent"
    ELSE IF risk_score >= RISK_THRESHOLD_CONSULT THEN "consult"
    ELSE "self_care"

\* lines 36-51 of _layer1_critical_life_threatening
CriticalPhrases(text_lower) ==
    LET r1 == RaiseIf(Contains(text_lower, "dying") \/ Contains(text_lower, "death"),
                      0, Pct(95))
        r2 == RaiseIf(/\ Contains(text_lower, "heart")
                      /\ ContainsAny(text_lower, {"hurt", "pain", "hurting", "hurts", "aching"}),
                      r1, Pct(90))
        r3 == RaiseIf(/\ Contains(text_lower, "chest")
                      /\ Contains(text_lower, "pain")
                      /\ (Contains(text_lower, "breath") \/ Contains(text_lower, "short")),
                      r2, Pct(90))
        r4 == RaiseIf(/\ HasBleeding(text_lower)
                      /\ (Contains(text_lower, "heart") \/ Contains(text_lower, "chest")),
                      r3, Pct(95))
    IN  r4

\* _layer1_critical_life_threatening(raw_text)
Layer1(raw_text) ==
    IF raw_text = "" THEN 0 ELSE CriticalPhrases(LowerStripped[raw_text])

\* the list `injuries` of _layer2_severe_injuries (line 65)
InjuryCategories(parsed_symptoms) ==
    SelectSeq(Get(parsed_symptoms, "symptom_categories", <<>>),
              LAMBDA cat : \/ Contains(cat, "fracture")
                           \/ Contains(cat, "dislocation")
                           \/ Contains(cat, "trauma"))

\* lines 67-71 of _layer2_severe_injuries
BrokenRisk(text_lower) ==
    IF Contains(text_lower, "broken")
    THEN IF ContainsAny(text_lower, {"arm", "leg", "foot", "ankle"})
         THEN Max(0, Pct(82)) ELSE Max(0, Pct(72))
    ELSE 0

\* lines 76-79 of _layer2_severe_injuries
InjuryCountRisk(n, risk) ==
    IF n >= 2 THEN Max(risk, Pct(88))
    ELSE IF n = 1 THEN Max(risk, Pct(73))
    ELSE risk

\* lines 62-87 of _layer2_severe_injuries
SevereInjuries(text_lower, injuries, red_flags) ==
    LET r1 == BrokenRisk(text_lower)
        r2 == RaiseIf(DislocationPhrase(text_lower), r1, Pct(78))
        r3 == InjuryCountRisk(Len(injuries), r2)
        r4 == RaiseIf(InList("traumatic_injury", red_flags), r3, Pct(75))
        r5 == RaiseIf(InList("multiple_injuries", red_flags), r4, Pct(87))
    IN  r5

\* _layer2_severe_injuries(raw_text, parsed_symptoms)
Layer2(raw_text, parsed_symptoms) ==
    IF raw_text = "" THEN 0
    ELSE SevereInjuries(LowerStripped[raw_text], InjuryCategories(parsed_symptoms),
                        Get(parsed_symptoms, "red_flags", <<>>))

\* (s/100)^1.8 for s = 0 .. 100, rounded to five decimals, in units of 10^-5:
\* the value of normalized ** 1.8 (line 104) at the severity s tenths
Pow18 ==
  << 0, 25, 87, 181, 305, 455, 632, 834, 1061, 1311,
     1585, 1882, 2201, 2542, 2904, 3288, 3693, 4119, 4566, 5032,
     5519, 6026, 6552, 7098, 7663, 8247, 8850, 9472, 10113, 10772,
     11450, 12146, 12861, 13593, 14344, 15112, 15898, 16702, 17523, 18362,
     19218, 20091, 20982, 21890, 22815, 23757, 24715, 25691, 26683, 27692,
     28717, 29760, 30818, 31893, 32984, 34092, 35216, 36356, 37512, 38684,
     39872, 41077, 42297, 43532, 44784, 46052, 47335, 48633, 49948, 51278,
     52623, 53984, 55360, 56752, 58159, 59581, 61019, 62472, 63940, 65423,
     66921, 68434, 69962, 71506, 73064, 74637, 76225, 77828, 79445, 81078,
     82725, 84387, 86063, 87754, 89460, 91181, 92916, 94665, 96429, 98207,
     100000 >>

\* lines 97-106 of _layer3_severity_spectrum
SeveritySpectrum(severity) ==
    IF severity >= 100 THEN Pct(95)
    ELSE IF severity <= 0 THEN Pct(8)
    ELSE Min(Pct(8) + Mul(Pow18[severity + 1] * 10000, 87), Pct(95))

\* _layer3_severity_spectrum(parsed_symptoms)
Layer3(parsed_symptoms) == SeveritySpectrum(Get(parsed_symptoms, "severity", 50))

critical_flags ==
    {"severe_chest_pain", "difficulty_breathing", "loss_of_consciousness",
     "critical_severity", "active_bleeding"}
severe_flags == {"fracture", "dislocation", "traumatic_injury", "multiple_injuries"}

\* lines 130-135 of _layer4_red_flags
FlagCountRisk(n, risk) ==
    IF n >= 3 THEN Max(risk, Pct(90))
    ELSE IF n >= 2 THEN Max(risk, Pct(75))
    ELSE IF n >= 1 THEN Max(risk, Pct(55))
    ELSE risk

\* lines 116-137 of _layer4_red_flags
RedFlagRisk(red_flags) ==
    IF red_flags = <<>> THEN 0
    ELSE LET r1 == RaiseIf(\E i \in 1..Len(red_flags) : red_flags[i] \in critical_flags,
                           0, Pct(85))
             r2 == RaiseIf(\E i \in 1..Len(red_flags) : red_flags[i] \in severe_flags,
                           r1, Pct(68))
         IN  FlagCountRisk(Len(red_flags), r2)

\* _layer4_red_flags(parsed_symptoms)
Layer4(parsed_symptoms) == RedFlagRisk(Get(parsed_symptoms, "red_flags", <<>>))

\* lines 147-164 of _layer5_symptom_combinations
CombinationRisk(symptom_categories, n) ==
    IF /\ InList("chest_pain", symptom_categories)
       /\ InList("shortness_of_breath", symptom_categories) THEN Pct(90)
    ELSE IF InList("trauma", symptom_categories) /\ n >= 4 THEN Pct(85)
    ELSE IF InList("trauma", symptom_categories) /\ n >= 3 THEN Pct(75)
    ELSE IF n >= 5 THEN Pct(65)
    ELSE IF n >= 4 THEN Pct(55)
    ELSE IF n >= 3 THEN Pct(42)
    ELSE IF n >= 2 THEN Pct(30)
    ELSE Pct(18)

\* _layer5_symptom_combinations(parsed_symptoms)
Layer5(parsed_symptoms) ==
    CombinationRisk(Get(parsed_symptoms, "symptom_categories", <<>>),
                    Len(Get(parsed_symptoms, "symptom_categories", <<>>)))

\* Python: base = max(base, x * f) if x > t else base
ScaledRaiseIf(base, x, t, f) == IF x > t THEN Max(base, Mul(x, f)) ELSE base

\* the branch of _compute_spectrum_risk_score for layer2 >= 0.80 (lines 192-198)
SevereInjuryBranch(layer2, layer3, layer4) ==
    Min(ScaledRaiseIf(ScaledRaiseIf(layer2, layer3, Pct(50), 90), layer4, Pct(50), 85),
        Pct(95))

\* lines 202-203: base_risk = base_risk * 0.65 + layer4 * 0.35 if layer4 > 0.4
BlendRedFlags(base_risk, layer4) ==
    IF layer4 > Pct(40) THEN Mul(base_risk, 65) + Mul(layer4, 35) ELSE base_risk

\* SeverityBranch with the red flags added as a bonus and the cap of 0.92 left out
SeverityBranch_Bonus(layer3, layer4, layer5) ==
    ScaledRaiseIf(layer3 + Mul(layer4, 35), layer5, Pct(30), 75)

\* the branch of _compute_spectrum_risk_score for layer3 >= 0.70 (lines 200-206)
SeverityBranch(layer3, layer4, layer5) ==
    Min(ScaledRaiseIf(BlendRedFlags(layer3, layer4), layer5, Pct(30), 75), Pct(92))

\* Combined letting a strong layer stand for the whole score
Combined_StrongestLayer(weighted_sum, max_layer, non_zero_layers) ==
    IF max_layer >= Pct(60) THEN max_layer ELSE weighted_sum

\* lines 216-227: the blend of the weighted sum with the strongest layer
Combined(weighted_sum, max_layer, non_zero_layers) ==
    IF max_layer >= Pct(60)
    THEN IF non_zero_layers >= 3
         THEN Mul(weighted_sum, 55) + Mul(max_layer, 45)
         ELSE Mul(weighted_sum, 60) + Mul(max_layer, 40)
    ELSE IF max_layer >= Pct(40)
    THEN IF non_zero_layers >= 2
         THEN Mul(weighted_sum, 65) + Mul(max_layer, 35)
         ELSE Mul(weighted_sum, 70) + Mul(max_layer, 30)
    ELSE weighted_sum

\* Python: len([l for l in layers if l > 0.05])
CountAbove(layers, t) == Cardinality({i \in 1..Len(layers) : layers[i] > t})

\* the weighted blend of _compute_spectrum_risk_score (lines 208-229)
WeightedBlend(layer1, layer2, layer3, layer4, layer5) ==
    Min(Combined(Mul(layer1, 30) + Mul(layer2, 28) + Mul(layer3, 22)
                     + Mul(layer4, 12) + Mul(layer5, 8),
                 Max(layer1, Max(layer2, Max(layer3, Max(layer4, layer5)))),
                 CountAbove(<<layer1, layer2, layer3, layer4, layer5>>, Pct(5))),
        Pct(95))

\* the priority cascade of _compute_spectrum_risk_score (lines 189-229)
Cascade(layer1, layer2, layer3, layer4, layer5) ==
    IF layer1 >= Pct(90) THEN layer1
    ELSE IF layer2 >= Pct(80) THEN SevereInjuryBranch(layer2, layer3, layer4)
    ELSE IF layer3 >= Pct(70) THEN SeverityBranch(layer3, layer4, layer5)
    ELSE WeightedBlend(layer1, layer2, layer3, layer4, layer5)

\* _compute_spectrum_risk_score(raw_text, parsed_symptoms)
ComputeSpectrumRiskScore(raw_text, parsed_symptoms) ==
    Cascade(Layer1(raw_text), Layer2(raw_text, parsed_symptoms), Layer3(parsed_symptoms),
            Layer4(parsed_symptoms), Layer5(parsed_symptoms))

(***************************************************************************)
(* The explanation template: llm_parser.py, _mock_explanation.             *)
(***************************************************************************)
\* Python: f"{risk_score:.2%}", the percentage rounded to two decimals, in
\* hundredths of a percent (91.50% is 9150)
Percent(score) == (score + 50000) \div 100000

\* _mock_explanation(risk_score, triage_label, parsed_symptoms, red_flags):
\* the parts the returned sentence is built from
MockExplanation(risk_score, triage_label, parsed_symptoms, red_flags) ==
    LET severity == Get(parsed_symptoms, "severity", 0)
    IN  [ source |-> "template",
          label |-> triage_label,
          percent |-> Percent(risk_score),
          flags_listed |-> red_flags,
          remark |-> IF severity >= 80 THEN "urgent_evaluation"
                     ELSE IF severity >= 60 THEN "consultation"
                     ELSE "none" ]

(***************************************************************************)
(* The external services and the configuration: config.py.                 *)
(***************************************************************************)
\* LLM_PROVIDER (config.py line 20); "mock" stands for every other value
Providers == {"openai", "anthropic", "mock"}
ExternalProviders == {"openai", "anthropic"}

\* the records an external parser may answer with, as parsed JSON objects
LlmObjects ==
    { [ symptom_categories |-> <<"chest_pain">>, severity |-> 70, duration_days |-> 2,
        pattern |-> "constant", red_flags |-> <<>> ],
      [ symptom_categories |-> <<"headache">>, severity |-> 0, duration_days |-> 1,
        pattern |-> "intermittent", red_flags |-> <<>> ],
      [ symptom_categories |-> <<"fever">>, severity |-> 150, duration_days |-> 1,
        pattern |-> "constant", red_flags |-> <<"critical_severity">> ],
      [ symptom_categories |-> <<"general_discomfort">>, severity |-> -20, duration_days |-> 3,
        pattern |-> "constant", red_flags |-> <<>> ],
      [ symptom_categories |-> <<"headache">> ] }

\* what one call of the external parser ends in: the call raises, or it returns
\* a content that is no JSON, a JSON value that is no object, or a JSON object
ParserReplies ==
    { [kind |-> "service_error"], [kind |-> "invalid_json"], [kind |-> "array"] }
    \cup { [kind |-> "object", value |-> o] : o \in LlmObjects }

\* what one call of the external explainer ends in
ExplainerReplies == { [kind |-> "service_error"], [kind |-> "text"] }

\* no call was made
NoReply == [kind |-> "none"]

(***************************************************************************)
(* parse_symptom_text and run_triage as functions of their inputs and of   *)
(* the external service's reply.                                           *)
(***************************************************************************)
\* Python: d[k] = v
SetKey(d, k, v) == [x \in DOMAIN d \cup {k} |-> IF x = k THEN v ELSE d[x]]

\* the record parse_symptom_text returns for empty or blank text (lines 24-30)
DefaultRecord ==
    [ symptom_categories |-> <<"general_discomfort">>, severity |-> 50, duration_days |-> 3,
      pattern |-> "constant", red_flags |-> <<>> ]

\* Python: not raw_text or not raw_text.strip()
IsBlank(raw_text) == raw_text = "" \/ Stripped[raw_text] = ""

\* lines 40-41 and 47-48: a severity of 0, or none, becomes 5.0
FixSeverity(result) ==
    IF Get(result, "severity", 0) = 0 THEN SetKey(result, "severity", 50) ELSE result

\* ParseWithExternal answering the default record, not the rule-based one, when
\* the service call raises
ParseWithExternal_DefaultOnError(raw_text, library, key, reply) ==
    IF ~library THEN [kind |-> "object", value |-> MockParse(raw_text)]
    ELSE IF ~key THEN [kind |-> "object", value |-> MockParse(raw_text)]
    ELSE IF reply.kind = "service_error"
        THEN [kind |-> "object", value |-> DefaultRecord]
    ELSE IF reply.kind = "invalid_json"
        THEN [kind |-> "object", value |-> MockParse(raw_text)]
    ELSE reply

\* _parse_with_openai / _parse_with_anthropic: the JSON value returned, given
\* whether the library imports, whether the key is set, and the service's reply
ParseWithExternal(raw_text, library, key, reply) ==
    IF ~library THEN [kind |-> "object", value |-> MockParse(raw_text)]
    ELSE IF ~key THEN [kind |-> "object", value |-> MockParse(raw_text)]
    ELSE IF reply.kind = "service_error"
        THEN [kind |-> "object", value |-> MockParse(raw_text)]
    ELSE IF reply.kind = "invalid_json"
        THEN [kind |-> "object", value |-> MockParse(raw_text)]
    ELSE reply

\* ParserCalls with one retry after the first call
ParserCalls_Retry(provider, library, key) ==
    IF provider \in ExternalProviders /\ library /\ key THEN 2 ELSE 0

\* whether _parse_with_openai / _parse_with_anthropic calls the service
ParserCalls(provider, library, key) ==
    IF provider \in ExternalProviders /\ library /\ key THEN 1 ELSE 0

\* Finish without the except branch: the AttributeError leaves parse_symptom_text
Finish_NoExcept(raw_text, result) ==
    IF result.kind = "object"
    THEN [raised |-> FALSE, value |-> FixSeverity(result.value)]
    ELSE [raised |-> TRUE, value |-> DefaultRecord]

\* lines 40-49 of parse_symptom_text: result.get on a value that is no dict
\* raises inside the try, and the except branch parses by the rules
Finish(raw_text, result) ==
    IF result.kind = "object"
    THEN [raised |-> FALSE, value |-> FixSeverity(result.value)]
    ELSE [raised |-> FALSE, value |-> FixSeverity(MockParse(raw_text))]

\* parse_symptom_text(raw_text): [raised, value]
ParseSymptomText(raw_text, provider, library, key, reply) ==
    IF IsBlank(raw_text) THEN [raised |-> FALSE, value |-> DefaultRecord]
    ELSE Finish(raw_text,
                IF provider \in ExternalProviders
                THEN ParseWithExternal(raw_text, library, key, reply)
                ELSE [kind |-> "object", value |-> MockParse(raw_text)])

\* GenerateExplanation letting the failure of the service reach the caller
GenerateExplanation_NoFallback(risk_score, triage_label, parsed_symptoms, red_flags, provider, library, key, reply) ==
    IF provider \in ExternalProviders /\ library /\ key
    THEN (IF reply.kind = "text" THEN [source |-> "external"] ELSE [source |-> "error"])
    ELSE MockExplanation(risk_score, triage_label, parsed_symptoms, red_flags)

\* generate_explanation(risk_score, triage_label, parsed_symptoms, red_flags)
GenerateExplanation(risk_score, triage_label, parsed_symptoms, red_flags, provider, library, key, reply) ==
    IF provider \in ExternalProviders /\ library /\ key /\ reply.kind = "text"
    THEN [source |-> "external"]
    ELSE MockExplanation(risk_score, triage_label, parsed_symptoms, red_flags)

\* lines 250-251 of run_triage: the text the layers scan; "" is also the
\* omitted argument (None)
EffectiveRawText(parsed_symptoms, raw_text) ==
    IF raw_text = "" THEN Get(parsed_symptoms, "raw_text", "") ELSE raw_text

\* lines 255-259 of run_triage
Classified(risk) == [risk_score |-> risk, triage_label |-> ClassifyTriage(risk)]

\* run_triage(parsed_symptoms, age, sex, raw_text): risk_score and triage_label
RunTriage(parsed_symptoms, raw_text) ==
    Classified(ComputeSpectrumRiskScore(EffectiveRawText(parsed_symptoms, raw_text),
                                        parsed_symptoms))

\* the age and the sex a caller passes: -1 and "" stand for None
\* (fastapi_app.py lines 23-24: both are optional)
Patients == {[age |-> -1, sex |-> ""], [age |-> 70, sex |-> "F"]}

\* run_triage with a surcharge for patients of 65 and older, which the code has not
RunTriage_AgeWeighted(parsed_symptoms, age, sex, raw_text) ==
    Classified(Min(Pct(100),
                   ComputeSpectrumRiskScore(EffectiveRawText(parsed_symptoms, raw_text),
                                            parsed_symptoms)
                   + (IF age >= 65 THEN Pct(5) ELSE 0)))

\* run_triage(parsed_symptoms, age, sex, raw_text) with all its parameters:
\* lines 250-259 read neither age nor sex
RunTriageWith(parsed_symptoms, age, sex, raw_text) ==
    RunTriage(parsed_symptoms, raw_text)

(***************************************************************************)
(* The fallback scorer: models/risk_scoring.py.                            *)
(***************************************************************************)
\* lines 48-59 of compute_risk_score: the phrases that short-circuit
FallbackPhrases(text_lower) ==
    /\ text_lower # ""
    /\ \/ Contains(text_lower, "dying") \/ Contains(text_lower, "im dying")
       \/ /\ Contains(text_lower, "heart")
          /\ ContainsAny(text_lower, {"hurt", "pain", "hurting", "hurts", "aching", "ache"})
       \/ /\ Contains(text_lower, "bleeding") \/ Contains(text_lower, "blood")
          /\ \/ Contains(text_lower, "heart") \/ Contains(text_lower, "chest")
             \/ Contains(text_lower, "pain")
       \/ /\ Contains(text_lower, "chest") /\ Contains(text_lower, "pain")
          /\ Contains(text_lower, "breath") \/ Contains(text_lower, "short")

\* line 74: the red flags that short-circuit
fallback_critical_flags ==
    <<"severe_chest_pain", "difficulty_breathing", "loss_of_consciousness", "critical_severity">>

\* lines 61-75 of compute_risk_score: the rules on the record
FallbackRules(symptom_categories, red_flags, severity) ==
    \/ severity >= 90
    \/ Len(red_flags) >= 2
    \/ InList("chest_pain", symptom_categories) /\ InList("shortness_of_breath", symptom_categories)
    \/ \E i \in 1..Len(red_flags) : InList(red_flags[i], fallback_critical_flags)

\* lines 45-75 of compute_risk_score: some rule returns 0.95 before the model is loaded
ShortCircuit(parsed_symptoms) ==
    \/ FallbackPhrases(LowerStripped[Get(parsed_symptoms, "raw_text", "")])
    \/ FallbackRules(Get(parsed_symptoms, "symptom_categories", <<>>),
                     Get(parsed_symptoms, "red_flags", <<>>),
                     Get(parsed_symptoms, "severity", 0))

\* ComputeRiskScore answering 0.5 when the model file is missing
ComputeRiskScore_DefaultScore(parsed_symptoms, model_exists, names_exist, probability) ==
    IF ShortCircuit(parsed_symptoms)
        THEN [raised |-> FALSE, loaded |-> FALSE, value |-> Pct(95)]
    ELSE IF ~model_exists
        THEN [raised |-> FALSE, loaded |-> FALSE, value |-> Pct(50)]
    ELSE IF ~names_exist
        THEN [raised |-> TRUE, loaded |-> TRUE, value |-> 0]
    ELSE [raised |-> FALSE, loaded |-> TRUE, value |-> Pct(probability)]

\* compute_risk_score(parsed_symptoms, age, sex): load_model (lines 12-17) and
\* load_feature_names (lines 20-26) raise FileNotFoundError when their file is
\* missing; `probability` is the class-1 probability of the classifier, in
\* hundredths (lines 83-88)
ComputeRiskScore(parsed_symptoms, model_exists, names_exist, probability) ==
    IF ShortCircuit(parsed_symptoms)
        THEN [raised |-> FALSE, loaded |-> FALSE, value |-> Pct(95)]
    ELSE IF ~model_exists
        THEN [raised |-> TRUE, loaded |-> FALSE, value |-> 0]
    ELSE IF ~names_exist
        THEN [raised |-> TRUE, loaded |-> TRUE, value |-> 0]
    ELSE [raised |-> FALSE, loaded |-> TRUE, value |-> Pct(probability)]

(***************************************************************************)
(* The database and the two endpoints: database/db_utils.py and            *)
(* api/fastapi_app.py.  A table is the set of its rows; a column that is   *)
(* NULL is a key the row does not have.  Every statement the code sends is *)
(* taken to execute: the failures of a request are the exceptions the      *)
(* Python code raises on its own data.                                     *)
(***************************************************************************)
\* the tables without rows
NoRows ==
    [ patients |-> {}, symptom_reports |-> {}, clinical_features |-> {},
      triage_predictions |-> {} ]

\* get_session(): `committed` is what the database file holds, `view` what the
\* session sees, its own uncommitted rows included
GetSession(tables) == [committed |-> tables, view |-> tables]

\* session.commit() and session.rollback()
Commit(session) == [session EXCEPT !.committed = session.view]
Rollback(session) == [session EXCEPT !.view = session.committed]

\* result.lastrowid of an INSERT into a table with these rows: the rowid after
\* the largest one
LastRowId(rows) ==
    IF rows = {} THEN 1
    ELSE 1 + CHOOSE n \in {r.id : r \in rows} : \A r \in rows : r.id <= n

\* session.execute(INSERT ...) followed by session.commit(), as every insert_*
\* function of db_utils.py does (lines 71, 98, 120, 147)
InsertCommitted(session, table, row) ==
    Commit([session EXCEPT !.view[table] = @ \cup {row}])

\* insert_patient(session, age, sex)
InsertPatient(session, age_, sex_) ==
    InsertCommitted(session, "patients",
        [id |-> LastRowId(session.view.patients), age |-> age_, sex |-> sex_])

\* insert_symptom_report(session, patient_id, raw_text, ...)
InsertSymptomReport(session, patient_id, raw_text, parsed_symptoms) ==
    InsertCommitted(session, "symptom_reports",
        [id |-> LastRowId(session.view.symptom_reports), patient_id |-> patient_id,
         raw_text |-> raw_text, parsed_severity |-> parsed_symptoms.severity])

\* insert_clinical_features(session, patient_id, symptom_report_id, feature_vector)
InsertClinicalFeatures(session, patient_id, symptom_report_id) ==
    InsertCommitted(session, "clinical_features",
        [id |-> LastRowId(session.view.clinical_features), patient_id |-> patient_id,
         symptom_report_id |-> symptom_report_id])

\* insert_triage_prediction(session, patient_id, symptom_report_id, risk_score,
\* triage_label, explanation)
InsertTriagePrediction(session, patient_id, symptom_report_id, risk, label) ==
    InsertCommitted(session, "triage_predictions",
        [id |-> LastRowId(session.view.triage_predictions), patient_id |-> patient_id,
         symptom_report_id |-> symptom_report_id, risk_score |-> risk,
         triage_label |-> label])

\* the rows of symptom_reports LEFT JOIN triage_predictions for one report
LeftJoin(sr, predictions) ==
    IF predictions = {} THEN {[report_id |-> sr.id, raw_text |-> sr.raw_text]}
    ELSE { [report_id |-> sr.id, raw_text |-> sr.raw_text, risk_score |-> tp.risk_score,
            triage_label |-> tp.triage_label] : tp \in predictions }

\* GetPatientHistory selecting by the report's own id
GetPatientHistory_ByReportId(tables, patient_id) ==
    UNION { LeftJoin(sr, {tp \in tables.triage_predictions : tp.symptom_report_id = sr.id}) :
            sr \in {r \in tables.symptom_reports : r.id = patient_id} }

\* get_patient_history(session, patient_id): the rows of the SELECT
GetPatientHistory(tables, patient_id) ==
    UNION { LeftJoin(sr, {tp \in tables.triage_predictions : tp.symptom_report_id = sr.id}) :
            sr \in {r \in tables.symptom_reports : r.patient_id = patient_id} }

\* get_history(patient_id): the answer of GET /patient/{patient_id}/history
GetHistory(tables, patient_id) ==
    IF GetPatientHistory(tables, patient_id) = {}
    THEN [kind |-> "history", status |-> 404, patient_id |-> patient_id]
    ELSE [kind |-> "history", status |-> 200, patient_id |-> patient_id,
          history |-> GetPatientHistory(tables, patient_id)]

\* Python: float(v) raises, for the values of a parsed JSON object: a number
\* and a boolean convert, a list, an object, and a string that is no numeral
\* do not
FloatRaises(v) ==
    ~ \/ SubSeq(ToString(v), 1, 1) \in {"0", "1", "2", "3", "4", "5", "6", "7", "8", "9", "-"}
      \/ ToString(v) \in {"TRUE", "FALSE"}
      \/ /\ Len(ToString(v)) > 2
         /\ SubSeq(ToString(v), 1, 1) = "\""
         /\ \A i \in 2..(Len(ToString(v)) - 1) :
                SubSeq(ToString(v), i, i) \in {"0", "1", "2", "3", "4", "5", "6", "7", "8", "9"}

\* create_feature_vector(parsed_symptoms, age, sex) raises (lines 36 and 39-40)
FeatureVectorRaises(parsed_symptoms) ==
    \/ FloatRaises(Get(parsed_symptoms, "severity", 0))
    \/ FloatRaises(Get(parsed_symptoms, "duration_days", 0))

\* lines 103-105 of triage_endpoint, after the except branch of get_db_session
\* (db_utils.py lines 39-41) rolled the session back
Answer500(session) ==
    [kind |-> "triage", status |-> 500, tables |-> Rollback(session).committed]

\* lines 90-101 of triage_endpoint, and the commit of get_db_session
\* (db_utils.py line 38)
Answer200(session, patient_id, symptom_report_id, out) ==
    [kind |-> "triage", status |-> 200, tables |-> Commit(session).committed,
     patient_id |-> patient_id, symptom_report_id |-> symptom_report_id,
     risk_score |-> out.risk_score, triage_label |-> out.triage_label]

\* lines 77-88 of triage_endpoint
StoreTriage(session, patient_id, symptom_report_id, out) ==
    Answer200(InsertTriagePrediction(session, patient_id, symptom_report_id,
                                     out.risk_score, out.triage_label),
              patient_id, symptom_report_id, out)

\* lines 66-79 of triage_endpoint; `session` holds the new symptom report, and
\* run_triage is called without raw_text
StoreFeatures(session, request, patient_id, symptom_report_id, parsed_symptoms) ==
    IF FeatureVectorRaises(parsed_symptoms) THEN Answer500(session)
    ELSE StoreTriage(InsertClinicalFeatures(session, patient_id, symptom_report_id),
                     patient_id, symptom_report_id,
                     RunTriageWith(parsed_symptoms, request.age, request.sex, ""))

\* lines 55-64 of triage_endpoint: the parsed record is stored as the report
StoreReport(session, request, patient_id, parsed) ==
    IF parsed.raised THEN Answer500(session)
    ELSE StoreFeatures(InsertSymptomReport(session, patient_id, request.symptom_text,
                                           parsed.value),
                       request, patient_id, LastRowId(session.view.symptom_reports),
                       parsed.value)

\* triage_endpoint(request): the answer of POST /triage and the tables it
\* leaves; a patient_id of 0 is also the omitted one (line 48 tests its truth)
TriageEndpoint(tables, request, provider, library, key, reply) ==
    IF request.patient_id # 0
    THEN StoreReport(GetSession(tables), request, request.patient_id,
                     ParseSymptomText(request.symptom_text, provider, library, key, reply))
    ELSE StoreReport(InsertPatient(GetSession(tables), request.age, request.sex),
                     request, LastRowId(tables.patients),
                     ParseSymptomText(request.symptom_text, provider, library, key, reply))

\* the requests sent to POST /triage, and the patient ids asked for
RequestPatientIds == {0, 1, 5}
RequestTexts == {"chest pain", "terrible headache"}
HistoryPatientIds == {1, 2, 5}
TriageRequests ==
    [patient_id : RequestPatientIds, age : {40}, sex : {"F", ""}, symptom_text : RequestTexts]

\* what the external parser answers to these requests: it is not called, it
\* fails, or it answers an object, whose duration_days may be a string that is
\* no number
RequestReplies ==
    << NoReply,
      [kind |-> "service_error"],
      [kind |-> "object",
       value |-> [ symptom_categories |-> <<"chest_pain">>, severity |-> 70,
                   duration_days |-> 2, pattern |-> "constant", red_flags |-> <<>> ]],
      [kind |-> "object",
       value |-> [ symptom_categories |-> <<"chest_pain">>, severity |-> 70,
                   duration_days |-> "unknown", pattern |-> "constant",
                   red_flags |-> <<>> ]] >>

(***************************************************************************)
(* Records built by hand.                                                  *)
(***************************************************************************)
\* the sub-lists of a list, in its order
SubLists(xs) ==
    { LET idx == SelectSeq([i \in 1..Len(xs) |-> i], LAMBDA i : i \in keep)
      IN  [j \in 1..Len(idx) |-> xs[idx[j]]] : keep \in SUBSET (1..Len(xs)) }

\* red flags and categories of the records run_triage is called on directly
ScoreFlags == <<"active_bleeding", "traumatic_injury", "multiple_injuries", "other_flag">>
ScoreCategories == <<"chest_pain", "shortness_of_breath", "fracture_arm", "trauma">>

ScoreRecords ==
    { [ symptom_categories |-> c, severity |-> s, duration_days |-> 3,
        pattern |-> "constant", red_flags |-> f ] :
        c \in SubLists(ScoreCategories), s \in (-10)..MaxSeverity, f \in SubLists(ScoreFlags) }

\* the records compute_risk_score is called on, and the class-1 probabilities
\* (hundredths) the classifier answers
FallbackTexts == {"", "hello", "dying", "heart heart hurts", "chest pain shortness of breath"}
FallbackFlags == <<"severe_chest_pain", "active_bleeding", "other_flag">>
FallbackCategories == <<"chest_pain", "shortness_of_breath", "headache">>
FallbackSeverities == {30, 89, 90, 95}
FallbackRecords ==
    [ raw_text : FallbackTexts, symptom_categories : SubLists(FallbackCategories),
      severity : FallbackSeverities, duration_days : {1}, pattern : {"constant"},
      red_flags : SubLists(FallbackFlags) ]
Probabilities == {0, 50, 95, 97, 100}

(***************************************************************************)
(* State.                                                                  *)
(***************************************************************************)
VARIABLES
    LLM_PROVIDER,       \* config.LLM_PROVIDER
    api_key_set,        \* the configured provider's API key is not empty
    library_installed,  \* the configured provider's client library imports
    pc,                 \* "idle", "parsed" (parse_symptom_text returned), "done"
    caller,             \* "api" (/triage), "dashboard", "direct" (run_triage alone)
    text,               \* the request's symptom_text
    record,             \* parsed_symptoms
    parse_path,         \* the way parse_symptom_text took
    raised,             \* an exception left parse_symptom_text or run_triage
    llm_calls,          \* calls of the external service in this request
    age, sex,           \* the demographics passed to run_triage (-1, "": None)
    model_file,         \* MODEL_PATH exists
    feature_names_file, \* models/feature_names.pkl exists
    model_loaded,       \* load_model returned the classifier in this call
    explain_path,       \* the way generate_explanation took
    risk_score, triage_label, explanation,  \* run_triage's result
    patients, symptom_reports, clinical_features, triage_predictions,
                        \* the rows the database file holds
    http,               \* the last answer of an endpoint
    posted              \* the answers 200 of POST /triage the clients received

vars == <<LLM_PROVIDER, api_key_set, library_installed, pc, caller, text, record,
          parse_path, raised, llm_calls, age, sex, explain_path,
          model_file, feature_names_file, model_loaded,
          risk_score, triage_label, explanation,
          patients, symptom_reports, clinical_features, triage_predictions,
          http, posted>>

config == <<LLM_PROVIDER, api_key_set, library_installed>>

files == <<model_file, feature_names_file>>

database == <<patients, symptom_reports, clinical_features, triage_predictions>>

web == <<http, posted>>

\* the tables of the database file
Tables ==
    [ patients |-> patients, symptom_reports |-> symptom_reports,
      clinical_features |-> clinical_features, triage_predictions |-> triage_predictions ]

\* the database after init_schema(), and no request answered yet
InitDatabase ==
    /\ patients = {}
    /\ symptom_reports = {}
    /\ clinical_features = {}
    /\ triage_predictions = {}
    /\ http = [kind |-> "none"]
    /\ posted = {}

NoRecord == [x \in {} |-> 0]

\* The key and the library of the provider that is not configured are never
\* read; for "mock" neither is.
Init ==
    /\ LLM_PROVIDER \in Providers
    /\ api_key_set \in BOOLEAN
    /\ library_installed \in BOOLEAN
    /\ LLM_PROVIDER = "mock" => api_key_set = FALSE /\ library_installed = FALSE
    /\ pc = "idle"
    /\ caller = "none"
    /\ text = ""
    /\ record = NoRecord
    /\ parse_path = "none"
    /\ raised = FALSE
    /\ llm_calls = 0
    /\ age = -1
    /\ sex = ""
    /\ explain_path = "none"
    /\ model_file = FALSE
    /\ feature_names_file = FALSE
    /\ model_loaded = FALSE
    /\ risk_score = 0
    /\ triage_label = "none"
    /\ explanation = [source |-> "none"]
    /\ InitDatabase

\* the path of parse_symptom_text that the configuration and the reply select
PathOf(raw_text, reply) ==
    IF IsBlank(raw_text) THEN "blank"
    ELSE IF LLM_PROVIDER \notin ExternalProviders THEN "rule_based"
    ELSE IF ~library_installed THEN "no_library"
    ELSE IF ~api_key_set THEN "no_key"
    ELSE reply.kind

\* the state after parse_symptom_text returned or raised `out`
Parsed(c, t, reply, out, calls) ==
    /\ calls = 0 <=> reply = NoReply
    /\ pc' = "parsed"
    /\ caller' = c
    /\ text' = t
    /\ record' = IF out.raised THEN NoRecord ELSE out.value
    /\ raised' = out.raised
    /\ parse_path' = PathOf(t, reply)
    /\ llm_calls' = calls

\* parse_symptom_text(symptom_text), as the two callers call it
\* (fastapi_app.py line 55, streamlit_app.py line 491); the dashboard refuses
\* blank text before it (line 483)
Parse(c, t, reply) ==
    /\ pc = "idle"
    /\ c = "dashboard" => ~IsBlank(t)
    /\ Parsed(c, t, reply,
              ParseSymptomText(t, LLM_PROVIDER, library_installed, api_key_set, reply),
              IF IsBlank(t) THEN 0
              ELSE ParserCalls(LLM_PROVIDER, library_installed, api_key_set))
    /\ UNCHANGED <<config, files, database, web, model_loaded, age, sex, explain_path, risk_score, triage_label, explanation>>

\* whether generate_explanation calls the service
ExplainerCalls == ParserCalls(LLM_PROVIDER, library_installed, api_key_set)

\* the path of generate_explanation that the configuration and the reply select
\* (lines 274-279, then 288-291 or 316-319)
ExplainPathOf(reply) ==
    IF LLM_PROVIDER \notin ExternalProviders THEN "rule_based"
    ELSE IF ~library_installed THEN "no_library"
    ELSE IF ~api_key_set THEN "no_key"
    ELSE reply.kind

\* the state after run_triage returned `out`
Triaged(parsed_symptoms, reply, out) ==
    /\ ExplainerCalls = 0 <=> reply = NoReply
    /\ explain_path' = ExplainPathOf(reply)
    /\ risk_score' = out.risk_score
    /\ triage_label' = out.triage_label
    /\ explanation' = GenerateExplanation(out.risk_score, out.triage_label,
                          parsed_symptoms, Get(parsed_symptoms, "red_flags", <<>>),
                          LLM_PROVIDER, library_installed, api_key_set, reply)
    /\ llm_calls' = llm_calls + ExplainerCalls
    /\ pc' = "done"

\* run_triage(parsed_symptoms, age, sex, raw_text), shared by its callers
Triage(parsed_symptoms, patient, raw_text, reply) ==
    /\ age' = patient.age
    /\ sex' = patient.sex
    /\ Triaged(parsed_symptoms, reply,
               RunTriageWith(parsed_symptoms, patient.age, patient.sex, raw_text))

\* fastapi_app.py lines 77-79: run_triage(parsed_symptoms, age, sex), raw_text omitted
ApiRunTriage(patient, reply) ==
    /\ pc = "parsed" /\ caller = "api" /\ ~raised
    /\ Triage(record, patient, "", reply)
    /\ UNCHANGED <<config, files, database, web, model_loaded, caller, text, record, parse_path, raised>>

\* streamlit_app.py lines 492 and 513-518: parsed_symptoms["raw_text"] = symptom_text,
\* then run_triage(parsed_symptoms, age, sex, raw_text=symptom_text); the form
\* always gives an age and a sex (lines 466-467)
DashboardRunTriage(patient, reply) ==
    /\ pc = "parsed" /\ caller = "dashboard" /\ ~raised
    /\ patient.age >= 0 /\ patient.sex # ""
    /\ Triage(SetKey(record, "raw_text", text), patient, text, reply)
    /\ record' = SetKey(record, "raw_text", text)
    /\ UNCHANGED <<config, files, database, web, model_loaded, caller, text, parse_path, raised>>

\* run_triage(parsed_symptoms, raw_text=raw_text) on a record built by hand
DirectRunTriage ==
    /\ pc = "parsed" /\ caller = "direct"
    /\ \E patient \in Patients : Triage(record, patient, text, NoReply)
    /\ UNCHANGED <<config, files, database, web, model_loaded, caller, text, record, parse_path, raised>>

\* the request is answered; the next one starts from nothing but the configuration
Respond ==
    /\ pc = "done" /\ caller \in {"api", "dashboard"}
    /\ pc' = "idle"
    /\ caller' = "none"
    /\ text' = ""
    /\ record' = NoRecord
    /\ parse_path' = "none"
    /\ raised' = FALSE
    /\ llm_calls' = 0
    /\ age' = -1
    /\ sex' = ""
    /\ explain_path' = "none"
    /\ risk_score' = 0
    /\ triage_label' = "none"
    /\ explanation' = [source |-> "none"]
    /\ UNCHANGED <<config, files, database, web, model_loaded>>

\* a request arrives at one of the two callers and is parsed
ParseRequest ==
    /\ pc = "idle"
    /\ \E c \in {"api", "dashboard"}, t \in Texts, reply \in ParserReplies \cup {NoReply} :
           Parse(c, t, reply)

Next ==
    \/ ParseRequest
    \/ \E patient \in Patients, reply \in ExplainerReplies \cup {NoReply} :
           ApiRunTriage(patient, reply)
    \/ \E patient \in Patients, reply \in ExplainerReplies \cup {NoReply} :
           DashboardRunTriage(patient, reply)
    \/ Respond

Spec == Init /\ [][Next]_vars

(***************************************************************************)
(* run_triage alone, on every text of ScoreTexts and record of ScoreRecords.*)
(***************************************************************************)
InitScore ==
    /\ LLM_PROVIDER = "mock"
    /\ api_key_set = FALSE
    /\ library_installed = FALSE
    /\ pc = "parsed"
    /\ caller = "direct"
    /\ text \in ScoreTexts
    /\ record \in ScoreRecords
    /\ parse_path = "none"
    /\ raised = FALSE
    /\ llm_calls = 0
    /\ age = -1
    /\ sex = ""
    /\ explain_path = "none"
    /\ model_file = FALSE
    /\ feature_names_file = FALSE
    /\ model_loaded = FALSE
    /\ risk_score = 0
    /\ triage_label = "none"
    /\ explanation = [source |-> "none"]
    /\ InitDatabase

NextScore == DirectRunTriage

SpecScore == InitScore /\ [][NextScore]_vars

(***************************************************************************)
(* classify_triage alone, on the scores of ClassifyScores.                 *)
(***************************************************************************)
ClassifyScores ==
    { k * 5000000 : k \in (-20)..MaxScoreStep }
        \cup {RISK_THRESHOLD_URGENT - 1, RISK_THRESHOLD_CONSULT - 1}

InitClassify ==
    /\ LLM_PROVIDER = "mock"
    /\ api_key_set = FALSE
    /\ library_installed = FALSE
    /\ pc = "scored"
    /\ caller = "classify"
    /\ text = ""
    /\ record = NoRecord
    /\ parse_path = "none"
    /\ raised = FALSE
    /\ llm_calls = 0
    /\ age = -1
    /\ sex = ""
    /\ explain_path = "none"
    /\ model_file = FALSE
    /\ feature_names_file = FALSE
    /\ model_loaded = FALSE
    /\ risk_score \in ClassifyScores
    /\ triage_label = "none"
    /\ explanation = [source |-> "none"]
    /\ InitDatabase

\* triage_label = classify_triage(risk_score)
Classify ==
    /\ pc = "scored" /\ caller = "classify"
    /\ triage_label' = ClassifyTriage(risk_score)
    /\ pc' = "done"
    /\ UNCHANGED <<config, files, database, web, model_loaded, caller, text, record, parse_path, raised, llm_calls, age, sex,
                   explain_path, risk_score, explanation>>

NextClassify == Classify

SpecClassify == InitClassify /\ [][NextClassify]_vars

(***************************************************************************)
(* compute_risk_score alone, on the records of FallbackRecords.            *)
(***************************************************************************)
InitFallback ==
    /\ LLM_PROVIDER = "mock"
    /\ api_key_set = FALSE
    /\ library_installed = FALSE
    /\ pc = "parsed"
    /\ caller = "fallback"
    /\ text = ""
    /\ record \in FallbackRecords
    /\ parse_path = "none"
    /\ raised = FALSE
    /\ llm_calls = 0
    /\ age = -1
    /\ sex = ""
    /\ explain_path = "none"
    /\ model_file \in BOOLEAN
    /\ feature_names_file \in BOOLEAN
    /\ model_loaded = FALSE
    /\ risk_score = 0
    /\ triage_label = "none"
    /\ explanation = [source |-> "none"]
    /\ InitDatabase

\* the state after compute_risk_score returned or raised `out`
Scored(out) ==
    /\ raised' = out.raised
    /\ model_loaded' = out.loaded
    /\ risk_score' = IF out.raised THEN risk_score ELSE out.value
    /\ pc' = "done"

\* risk_score = compute_risk_score(parsed_symptoms, age, sex)
FallbackScore(patient, probability) ==
    /\ pc = "parsed" /\ caller = "fallback"
    /\ age' = patient.age
    /\ sex' = patient.sex
    /\ Scored(ComputeRiskScore(record, model_file, feature_names_file, probability))
    /\ UNCHANGED <<config, files, database, web, caller, text, record, parse_path, llm_calls,
                   explain_path, triage_label, explanation>>

NextFallback ==
    \E patient \in Patients, probability \in Probabilities : FallbackScore(patient, probability)

SpecFallback == InitFallback /\ [][NextFallback]_vars

(***************************************************************************)
(* The rule-based parser alone: LLM_PROVIDER names no external provider,   *)
(* and the dashboard parses and scores the texts of RuleTexts.             *)
(***************************************************************************)
InitRules ==
    /\ LLM_PROVIDER = "mock"
    /\ api_key_set = FALSE
    /\ library_installed = FALSE
    /\ pc = "idle"
    /\ caller = "none"
    /\ text = ""
    /\ record = NoRecord
    /\ parse_path = "none"
    /\ raised = FALSE
    /\ llm_calls = 0
    /\ age = -1
    /\ sex = ""
    /\ explain_path = "none"
    /\ model_file = FALSE
    /\ feature_names_file = FALSE
    /\ model_loaded = FALSE
    /\ risk_score = 0
    /\ triage_label = "none"
    /\ explanation = [source |-> "none"]
    /\ InitDatabase

\* a text of RuleTexts is submitted in the dashboard and parsed
ParseRuleRequest ==
    /\ pc = "idle"
    /\ \E t \in RuleTexts : Parse("dashboard", t, NoReply)

NextRules ==
    \/ ParseRuleRequest
    \/ \E patient \in Patients : DashboardRunTriage(patient, NoReply)
    \/ Respond

SpecRules == InitRules /\ [][NextRules]_vars

(***************************************************************************)
(* The two endpoints on the database: POST /triage and                     *)
(* GET /patient/{patient_id}/history.  The handlers are coroutines without *)
(* an await, so each runs to its end before the next request is served.    *)
(***************************************************************************)
InitDb ==
    /\ LLM_PROVIDER \in {"mock", "openai"}
    /\ api_key_set = (LLM_PROVIDER = "openai")
    /\ library_installed = (LLM_PROVIDER = "openai")
    /\ pc = "idle"
    /\ caller = "none"
    /\ text = ""
    /\ record = NoRecord
    /\ parse_path = "none"
    /\ raised = FALSE
    /\ llm_calls = 0
    /\ age = -1
    /\ sex = ""
    /\ explain_path = "none"
    /\ model_file = FALSE
    /\ feature_names_file = FALSE
    /\ model_loaded = FALSE
    /\ risk_score = 0
    /\ triage_label = "none"
    /\ explanation = [source |-> "none"]
    /\ InitDatabase

\* the state after triage_endpoint answered
Answered(answer) ==
    /\ patients' = answer.tables.patients
    /\ symptom_reports' = answer.tables.symptom_reports
    /\ clinical_features' = answer.tables.clinical_features
    /\ triage_predictions' = answer.tables.triage_predictions
    /\ http' = [k \in DOMAIN answer \ {"tables"} |-> answer[k]]
    /\ posted' = IF answer.status = 200
                 THEN posted \cup {[k \in DOMAIN answer \ {"tables", "kind", "status"} |-> answer[k]]}
                 ELSE posted

\* POST /triage
PostTriage(request, reply) ==
    /\ pc = "idle"
    /\ Cardinality(symptom_reports) < MaxRequests
    /\ ParserCalls(LLM_PROVIDER, library_installed, api_key_set) = 0 <=> reply = NoReply
    /\ Answered(TriageEndpoint(Tables, request, LLM_PROVIDER, library_installed,
                               api_key_set, reply))
    /\ UNCHANGED <<config, files, model_loaded, pc, caller, text, record, parse_path, raised,
                   llm_calls, age, sex, explain_path, risk_score, triage_label, explanation>>

\* GET /patient/{patient_id}/history
GetHistoryRequest(patient_id) ==
    /\ pc = "idle"
    /\ http' = GetHistory(Tables, patient_id)
    /\ UNCHANGED <<config, files, model_loaded, pc, caller, text, record, parse_path, raised,
                   llm_calls, age, sex, explain_path, risk_score, triage_label, explanation,
                   database, posted>>

NextDb ==
    \/ \E request \in TriageRequests, i \in DOMAIN RequestReplies :
           PostTriage(request, RequestReplies[i])
    \/ \E patient_id \in HistoryPatientIds : GetHistoryRequest(patient_id)

SpecDb == InitDb /\ [][NextDb]_vars

(***************************************************************************)
(* Properties.                                                             *)
(***************************************************************************)
\* the record with one more red flag, and with a severity one tenth higher
WithFlag(parsed_symptoms, flag) ==
    [parsed_symptoms EXCEPT !.red_flags = Append(@, flag)]
Severer(parsed_symptoms) ==
    [parsed_symptoms EXCEPT !.severity = @ + 1]

\* C1: for every raw_text and every record (any severity, any red_flags, any
\* symptom_categories) the risk score run_triage returns lies in [0.0, 1.0].
C1_RiskScoreInUnitInterval ==
    pc = "done" => 0 <= risk_score /\ risk_score <= Pct(100)

\* C1's case: run_triage has scored a record whose severity is beyond 10.0 and
\* that carries three red flags
C1_Witness ==
    /\ pc = "done"
    /\ record.severity > 100
    /\ Len(record.red_flags) >= 3
    /\ risk_score > 0

\* C2: every text containing "dying", parsed by parse_symptom_text and scored by
\* run_triage the way the /triage endpoint calls it, gets risk_score >= 0.90
\* and the label "urgent".
C2_DyingIsUrgent ==
    (pc = "done" /\ caller = "api" /\ Contains(text, "dying"))
        => risk_score >= Pct(90) /\ triage_label = "urgent"

\* C3: a record with one or more additional red flags, everything else and the
\* raw_text the same, never gets a lower risk score.
C3_RedFlagMonotone ==
    pc = "done" =>
        \A i \in 1..Len(ScoreFlags) :
            ~InList(ScoreFlags[i], record.red_flags) =>
                RunTriage(WithFlag(record, ScoreFlags[i]), text).risk_score >= risk_score

\* C4: a record with a higher severity, everything else and the raw_text the
\* same, never gets a lower risk score (here: a severity one tenth higher).
C4_SeverityMonotone ==
    pc = "done" => RunTriage(Severer(record), text).risk_score >= risk_score

\* C5: for a fixed record, a raw_text with a critical phrase (L1 >= 0.90) never
\* gets a lower risk score than a raw_text without one (L1 = 0) that gives the
\* other layers the same values.
C5_CriticalPhraseMonotone ==
    (pc = "done" /\ Layer1(text) >= Pct(90)) =>
        \A t \in ScoreTexts :
            (Layer1(t) = 0 /\ Layer2(t, record) = Layer2(text, record)) =>
                risk_score >= RunTriage(record, t).risk_score

\* C6: every record parse_symptom_text returns has its severity in [0, 10],
\* whether the rules built it or an external parser answered it.
C6_SeverityInRange ==
    (pc = "parsed" /\ ~raised) =>
        /\ "severity" \in DOMAIN record
        /\ 0 <= record.severity /\ record.severity <= 100

\* C7: the record parse_symptom_text returns for a text t has the field raw_text,
\* equal to t.
C7_RecordKeepsRawText ==
    (pc = "parsed" /\ ~raised) =>
        "raw_text" \in DOMAIN record /\ record.raw_text = text

\* C8: run_triage(parse_symptom_text(t)) with raw_text omitted, the call of the
\* /triage endpoint, returns the risk_score and the label of
\* run_triage(parse_symptom_text(t), raw_text=t).
C8_OmittedRawTextFallsBack ==
    (pc = "done" /\ caller = "api") =>
        /\ risk_score = RunTriage(record, text).risk_score
        /\ triage_label = RunTriage(record, text).triage_label

\* C9: parse_symptom_text never raises; for an empty or blank text it returns
\* exactly the default record, and for every other text it returns a record.
C9_ParseNeverRaises ==
    pc = "parsed" =>
        /\ ~raised
        /\ record # NoRecord
        /\ (text = "" \/ Stripped[text] = "") =>
               record = [ symptom_categories |-> <<"general_discomfort">>, severity |-> 50,
                          duration_days |-> 3, pattern |-> "constant", red_flags |-> <<>> ]

\* C9's case: the external parser answered a JSON value that is no object, and
\* parse_symptom_text has returned
C9_Witness ==
    pc = "parsed" /\ parse_path = "array" /\ ~raised /\ text = " dying"

\* the ways an external parser's call fails
FailurePaths == {"no_library", "no_key", "service_error", "invalid_json", "array"}

\* C10: when an external parser is configured and its call fails in any way,
\* parse_symptom_text raises nothing and returns exactly the record _mock_parse
\* gives for the same text.
C10_FailureFallsBackToRules ==
    (pc = "parsed" /\ parse_path \in FailurePaths) =>
        ~raised /\ record = RuleBasedRecord[text]

\* C10's case: the service call raised for "Broken arm", and the record is the
\* rule-based one (severity 8.5, a fracture)
C10_Witness ==
    /\ pc = "parsed"
    /\ parse_path = "service_error"
    /\ text = "Broken arm"
    /\ record.severity = 85
    /\ record.symptom_categories = <<"fracture_arm", "trauma">>

\* the calls of the external service that the paths taken account for
ParserCallsMade ==
    IF parse_path \in {"service_error", "invalid_json", "array", "object"} THEN 1 ELSE 0
ExplainerCallsMade ==
    IF explain_path \in {"service_error", "text"} THEN 1 ELSE 0

\* C11 as stated: each function calls the external service at most once, and
\* after a failed external call the service is never called again in that request.
C11_NoCallAfterFailure ==
    /\ llm_calls <= ParserCallsMade + ExplainerCallsMade
    /\ (pc = "done" /\ parse_path \in {"service_error", "invalid_json", "array"})
           => llm_calls = 1

\* C11, amended: one parse_symptom_text call and one generate_explanation call
\* invoke the external service at most once each, a failed call is followed by
\* the deterministic fallback, and a request makes at most two calls, one by
\* each function (the explainer's also after the parser's call failed).
C11_AtMostOneCallEach ==
    /\ llm_calls = ParserCallsMade + ExplainerCallsMade
    /\ pc = "parsed" => llm_calls = ParserCallsMade
    /\ (pc = "parsed" /\ parse_path \in {"service_error", "invalid_json", "array"})
           => record = RuleBasedRecord[text]
    /\ (pc = "done" /\ explain_path = "service_error")
           => explanation.source = "template"

\* C11's case: the parser's call and the explainer's call of one request both
\* failed
C11_Witness ==
    /\ pc = "done"
    /\ parse_path = "service_error"
    /\ explain_path = "service_error"
    /\ llm_calls = 2
    /\ explanation.source = "template"

\* the ways generate_explanation ends without a text of the external service
TemplatePaths == {"rule_based", "no_library", "no_key", "service_error"}

C13_ScoreIgnoresAgeSexExplainer ==
    pc = "done" =>
        /\ risk_score = RunTriage(record, IF caller = "api" THEN "" ELSE text).risk_score
        /\ triage_label = RunTriage(record, IF caller = "api" THEN "" ELSE text).triage_label

\* C13's case: run_triage scored a record for a patient of 70 while the
\* explanation came from the external service
C13_Witness ==
    /\ pc = "done"
    /\ age = 70
    /\ sex = "F"
    /\ explain_path = "text"
    /\ explanation.source = "external"
    /\ risk_score > 0

\* the replies a second call of parse_symptom_text on the same text may meet
SecondReplies ==
    IF ~IsBlank(text) /\ ParserCalls(LLM_PROVIDER, library_installed, api_key_set) = 1
    THEN ParserReplies ELSE {NoReply}

\* C14: a second call of parse_symptom_text on the same text returns the record
\* of the first, for every configuration of the parser (rule-based, or an
\* external parser that may succeed or fail).
C14_ParseIdempotent ==
    (pc = "parsed" /\ ~raised) =>
        \A reply \in SecondReplies :
            ParseSymptomText(text, LLM_PROVIDER, library_installed, api_key_set,
                             reply).value = record

\* the order of the labels, from the least to the most urgent
Urgency(label) ==
    CASE label = "self_care" -> 0
      [] label = "consult" -> 1
      [] label = "urgent" -> 2

\* C15: classify_triage is a total threshold function: "urgent" for a score
\* >= 0.8, "consult" for 0.4 <= score < 0.8, "self_care" below 0.4 (so exactly
\* 0.8 is "urgent" and exactly 0.4 is "consult"), and a higher score never gets
\* a less urgent label.
C15_ClassifyThresholds ==
    (pc = "done" /\ caller = "classify") =>
        /\ triage_label \in {"urgent", "consult", "self_care"}
        /\ triage_label = "urgent" <=> risk_score >= 800000000
        /\ triage_label = "consult" <=> (400000000 <= risk_score /\ risk_score < 800000000)
        /\ triage_label = "self_care" <=> risk_score < 400000000
        /\ \A higher \in ClassifyScores :
               higher >= risk_score =>
                   Urgency(ClassifyTriage(higher)) >= Urgency(triage_label)

\* C15's case: a score of exactly 0.8 has been classified, as "urgent"
C15_Witness ==
    /\ pc = "done"
    /\ caller = "classify"
    /\ risk_score = 800000000
    /\ triage_label = "urgent"

\* C16: compute_risk_score loads and consults the trained model only when no
\* short-circuit rule fires; when none fires and the model file is missing the
\* call fails with an error and returns no default score; when a rule fires it
\* returns 0.95 even if no model exists.
C16_ModelOnlyPastTheRules ==
    (pc = "done" /\ caller = "fallback") =>
        /\ model_loaded => ~ShortCircuit(record)
        /\ (~ShortCircuit(record) /\ ~model_file) => (raised /\ risk_score = 0)
        /\ ShortCircuit(record) => (~raised /\ risk_score = Pct(95))

\* C16's case: no rule fired for a record of severity 3.0 without red flags,
\* the model file is missing, and the call raised
C16_Witness ==
    /\ pc = "done"
    /\ caller = "fallback"
    /\ ~ShortCircuit(record)
    /\ record.severity = 30
    /\ ~model_file
    /\ raised
    /\ ~model_loaded

\* the records B of C17 without text and categories: a critical red flag, or
\* severity >= 9
HighRiskRecords ==
    { B \in FallbackRecords :
        /\ B.raw_text = "" /\ B.symptom_categories = <<>>
        /\ \/ B.severity >= 90
           \/ \E i \in 1..Len(B.red_flags) : InList(B.red_flags[i], fallback_critical_flags) }

\* C17: for a record A with no red flags and severity below 9 and a record B
\* with a critical red flag or severity >= 9, compute_risk_score(B) >=
\* compute_risk_score(A), for every class-1 probability the classifier may
\* return for A.
C17_RedFlagsIncreaseFallbackScore ==
    (pc = "done" /\ caller = "fallback" /\ ~raised
        /\ record.red_flags = <<>> /\ record.severity < 90) =>
        \A B \in HighRiskRecords :
            ComputeRiskScore(B, model_file, feature_names_file, 50).value >= risk_score

\* the keys of a symptom record
RecordKeys == {"symptom_categories", "severity", "duration_days", "pattern", "red_flags"}

\* C18: every record parse_symptom_text returns for a non-empty text has the
\* five keys symptom_categories, severity, duration_days, pattern and
\* red_flags, with a number as severity and an integer as duration_days, also
\* when it comes from an external parser's JSON response.
C18_RecordHasFiveKeys ==
    (pc = "parsed" /\ ~raised /\ text # "") =>
        /\ RecordKeys \subseteq DOMAIN record
        /\ record.severity \in Int
        /\ record.duration_days \in Int

\* the categories of the record run_triage scored
ScoredCategories == Get(record, "symptom_categories", <<>>)

\* C19: whenever the record's symptom_categories contain both chest_pain and
\* shortness_of_breath, the L5 combination layer is 0.90 and the final
\* risk_score is >= 0.85 with label "urgent".
C19_ChestPainWithBreathlessnessIsUrgent ==
    (pc = "done" /\ InList("chest_pain", ScoredCategories)
                 /\ InList("shortness_of_breath", ScoredCategories)) =>
        /\ Layer5(record) = Pct(90)
        /\ risk_score >= Pct(85)
        /\ triage_label = "urgent"

\* the ways parse_symptom_text returns the rule-based record of a text
RuleBasedPaths == {"rule_based"} \cup FailurePaths

\* C20: for every text whose rule-based record has severity <= 4.0 and no red
\* flags, run_triage returns the label "self_care".
C20_MildWithoutRedFlagsIsSelfCare ==
    (pc = "done" /\ parse_path \in RuleBasedPaths
        /\ RuleBasedRecord[text].severity <= 40
        /\ RuleBasedRecord[text].red_flags = <<>>) =>
        triage_label = "self_care"

\* the lower-cased, stripped text the rule-based parser scans
TextLower == LowerStripped[text]

\* the body parts _detect_injuries finds in the request text
PartsFound == SelectSeq(body_parts, LAMBDA part : Contains(TextLower, part))

\* C21: for every text containing "broken" together with a body part, the
\* rule-based record carries the tag fracture_<part> and severity >= 8.5, layer
\* L2 is >= 0.82, and run_triage called with that text returns "urgent".
C21_BrokenBodyPartIsUrgent ==
    (caller = "dashboard" /\ parse_path = "rule_based" /\ pc \in {"parsed", "done"}
        /\ Contains(TextLower, "broken") /\ PartsFound # <<>>) =>
        /\ \A i \in 1..Len(PartsFound) :
               InList("fracture_" \o PartsFound[i], record.symptom_categories)
        /\ record.severity >= 85
        /\ Layer2(text, record) >= Pct(82)
        /\ pc = "done" => triage_label = "urgent"

\* the rule-based parser has returned the record of the request text
RuleParsed == pc = "parsed" /\ caller = "dashboard" /\ parse_path = "rule_based"

\* C23: for every text containing a death/dying phrase ("dying", "death",
\* "dead", "kill me") the rule-based record has severity exactly 10.0, and so
\* the red flag critical_severity, whatever other severity cues the text has.
C23_DeathPhraseIsSeverityTen ==
    (RuleParsed /\ ContainsAny(TextLower, {"dying", "death", "dead", "kill me"})) =>
        /\ record.severity = 100
        /\ InList("critical_severity", record.red_flags)

\* the floor of the injury _detect_injuries tagged in the request text: 8.5 for
\* a fracture, 8.0 for a dislocation, 7.0 for a trauma, none without a tag
InjuryFloor ==
    IF DetectInjuries(TextLower) = <<>> THEN 0 ELSE KindSeverity(InjuryKind(TextLower))

\* C24: for every text without a mild cue (mild, slight, minor, little) the final
\* rule-based severity is at least max(5.0, injury floor): no other phrase cue
\* lowers the severity below that value.
C24_OverridesOnlyRaise ==
    (RuleParsed /\ ~ContainsAny(TextLower, {"mild", "slight", "minor", "little"})) =>
        record.severity >= Max(50, InjuryFloor)

\* what the injury-count rule of _layer2_severe_injuries contributes for the
\* record (lines 65 and 76-79)
InjuryCountContribution == InjuryCountRisk(Len(InjuryCategories(record)), 0)

\* C25: on a record of the rule-based parser the injury-count rule of layer 2
\* contributes 0.73 when exactly one injury was detected in the text, and 0.88
\* only when two or more were detected.
C25_InjuryCountFollowsDetectedInjuries ==
    RuleParsed =>
        /\ Len(DetectInjuries(TextLower)) = 1 => InjuryCountContribution = Pct(73)
        /\ InjuryCountContribution = Pct(88) => Len(DetectInjuries(TextLower)) >= 2

\* the record carries an injury tag that begins with `kind`
HasTag(kind) ==
    \E i \in 1..Len(record.symptom_categories) :
        /\ Len(record.symptom_categories[i]) >= Len(kind)
        /\ SubSeq(record.symptom_categories[i], 1, Len(kind)) = kind

\* C26: whenever the rule-based parser detects a fracture (a tag fracture_<part>,
\* from any fracture keyword) the red_flags contain "fracture", and whenever it
\* detects a dislocation (a tag dislocation_<part>, from any dislocation phrase)
\* the red_flags contain "dislocation".
C26_InjuryTagsHaveTheirFlag ==
    RuleParsed =>
        /\ HasTag("fracture_") => InList("fracture", record.red_flags)
        /\ HasTag("dislocation_") => InList("dislocation", record.red_flags)

\* how often a flag occurs in the record's red_flags
FlagCount(flag) == Cardinality({i \in 1..Len(record.red_flags) : record.red_flags[i] = flag})

\* C27: in every rule-based record red_flags holds severe_chest_pain,
\* loss_of_consciousness, difficulty_breathing and active_bleeding each exactly
\* when one of its trigger phrases occurs in the (lower-cased) text,
\* critical_severity exactly when the final severity is >= 9.0,
\* traumatic_injury exactly when at least one injury was detected, and
\* multiple_injuries only together with traumatic_injury; no flag occurs twice.
C27_RedFlagsFollowTheirTriggers ==
    RuleParsed =>
        /\ InList("severe_chest_pain", record.red_flags) <=>
               (\/ Contains(TextLower, "severe chest") \/ Contains(TextLower, "crushing")
                \/ Contains(TextLower, "pressure") \/ Contains(TextLower, "heart pain"))
        /\ InList("loss_of_consciousness", record.red_flags) <=>
               (\/ Contains(TextLower, "unconscious") \/ Contains(TextLower, "passed out")
                \/ Contains(TextLower, "fainted"))
        /\ InList("difficulty_breathing", record.red_flags) <=>
               (\/ Contains(TextLower, "can't breathe")
                \/ Contains(TextLower, "struggling to breathe")
                \/ Contains(TextLower, "shortness of breath"))
        /\ InList("active_bleeding", record.red_flags) <=>
               (\/ Contains(TextLower, "bleeding") \/ Contains(TextLower, "blood")
                \/ Contains(TextLower, "hemorrhage"))
        /\ InList("critical_severity", record.red_flags) <=> record.severity >= 90
        /\ InList("traumatic_injury", record.red_flags) <=>
               (HasTag("fracture_") \/ HasTag("dislocation_") \/ HasTag("trauma_"))
        /\ InList("multiple_injuries", record.red_flags) =>
               InList("traumatic_injury", record.red_flags)
        /\ \A i \in 1..Len(record.red_flags) : FlagCount(record.red_flags[i]) = 1

\* C27's case: the parser read "Passed out" in capitals beside a broken arm
C27_Witness ==
    /\ RuleParsed
    /\ text = "Passed out broken arm"
    /\ record.red_flags = <<"loss_of_consciousness", "traumatic_injury", "fracture">>

\* the cascade of _compute_spectrum_risk_score falls through to the weighted
\* blend (lines 189, 192 and 200 all fail)
BlendBranch(raw_text, parsed_symptoms) ==
    /\ Layer1(raw_text) < Pct(90)
    /\ Layer2(raw_text, parsed_symptoms) < Pct(80)
    /\ Layer3(parsed_symptoms) < Pct(70)

\* C28: the weighted-blend branch of the cascade never produces a score >= 0.8:
\* the label "urgent" is reached only through the critical-phrase, the
\* severe-injury or the severity branch, whatever the red flags and the symptom
\* combinations are.
C28_BlendNeverUrgent ==
    (pc = "done" /\ caller = "direct" /\ BlendBranch(text, record)) =>
        /\ risk_score < Pct(80)
        /\ triage_label # "urgent"

\* C28's case: the blend scored a record whose red-flag layer and combination
\* layer are both 0.90, beside a dislocation in the text
C28_Witness ==
    /\ pc = "done"
    /\ caller = "direct"
    /\ BlendBranch(text, record)
    /\ Layer2(text, record) = Pct(78)
    /\ Layer4(record) = Pct(90)
    /\ Layer5(record) = Pct(90)
    /\ risk_score >= Pct(70)

\* C29: for every record with severity >= 8.0 run_triage never returns the label
\* "self_care": the template's remark on high symptom severity is never attached
\* to a self_care decision.
C29_HighSeverityNeverSelfCare ==
    (pc = "done" /\ record.severity >= 80) => triage_label # "self_care"

\* the row of a patient's history for the report of an answer of POST /triage
ReportedIn(history, answer) ==
    \E row \in history :
        /\ row.report_id = answer.symptom_report_id
        /\ "risk_score" \in DOMAIN row /\ row.risk_score = answer.risk_score
        /\ "triage_label" \in DOMAIN row /\ row.triage_label = answer.triage_label

\* C22: after a POST /triage request has succeeded for a patient p, every later
\* GET /patient/p/history returns status 200 with a non-empty history that
\* contains that request's report with its risk_score and triage_label; a GET
\* for a patient with no reports returns 404.
C22_HistoryHoldsAnsweredReports ==
    /\ \A answer \in posted :
           /\ GetHistory(Tables, answer.patient_id).status = 200
           /\ ReportedIn(GetHistory(Tables, answer.patient_id).history, answer)
    /\ http.kind = "history" =>
           /\ \A answer \in posted :
                  answer.patient_id = http.patient_id =>
                      /\ http.status = 200
                      /\ http.history # {}
                      /\ ReportedIn(http.history, answer)
           /\ {r \in symptom_reports : r.patient_id = http.patient_id} = {}
                  => http.status = 404

\* C22's case: a request for patient 1 succeeded, a later one for the same
\* patient failed, and the history asked for afterwards holds both reports
C22_Witness ==
    /\ http.kind = "history"
    /\ http.status = 200
    /\ http.patient_id = 1
    /\ \E answer \in posted : answer.patient_id = 1 /\ ReportedIn(http.history, answer)
    /\ \E row \in http.history : "risk_score" \notin DOMAIN row

\* C30: a /triage request is atomic in the database: when a step after the
\* first insert fails and the endpoint answers 500, none of the rows the request
\* inserted (patient, symptom report, clinical features) remains, so every row
\* belongs to a request that was answered 200; and no symptom report is visible
\* in a history without its triage prediction.
C30_TriageIsAtomic ==
    /\ \A p \in patients : \E answer \in posted : answer.patient_id = p.id
    /\ \A r \in symptom_reports : \E answer \in posted : answer.symptom_report_id = r.id
    /\ \A f \in clinical_features :
           \E answer \in posted : answer.symptom_report_id = f.symptom_report_id
    /\ \A r \in symptom_reports :
           \A row \in GetPatientHistory(Tables, r.patient_id) : "risk_score" \in DOMAIN row

=============================================================================
